---- MODULE Spec2Model ----
(***************************************************************************)
(* The reconstruction-based outlier detector kenchi.outlier_detection.PCA  *)
(* (reconstruction_based.py) as a state machine.                           *)
(*                                                                         *)
(* A sample matrix has one feature column; its entries are small integers. *)
(* Every real number the detector computes on such data (mean, residual,   *)
(* anomaly score, interpolated percentile) is rational and is kept exactly *)
(* as a reduced fraction [num, den].                                       *)
(* An attribute that may be absent is a sequence: <<>> when the attribute  *)
(* does not exist, <<v>> when it holds v.                                  *)
(***************************************************************************)
EXTENDS Integers, Sequences, FiniteSets, TLC

\* Largest number of rows of a sample matrix.
MaxRows == 3

\* Entries of a sample matrix range over 0..MaxVal.
MaxVal == 1

\* false-positive rates are the multiples of 1/FprDen.
FprDen == 3

VARIABLES library, constructed, fpr, kwargs, pca, X_, threshold_, fitted, result

vars == <<library, constructed, fpr, kwargs, pca, X_, threshold_, fitted, result>>

----
\* Absent and present attribute values.
Absent == <<>>

Present(v) == <<v>>

\* The generations of scikit-learn the detector runs on.
\* "0.19": check_array(X) with dtype="numeric" hands back an array of numeric
\*         strings untouched; PCA.transform and PCA.score_samples validate
\*         with that same call; PCA.fit checks n_components after the data.
\* "1.x":  check_array(X) with dtype="numeric" raises ValueError on an array
\*         of strings; PCA.transform and PCA.score_samples convert to float
\*         as PCA.fit does; PCA.fit validates its parameters before the data.
Libraries == {"0.19", "1.x"}

\* Error kinds.
NotFittedError == "NotFittedError"

AttributeError == "AttributeError"

InvalidConfiguration == "InvalidConfiguration"

MalformedInput == "MalformedInput"

----
\* Exact rational arithmetic on fractions [num, den] with den > 0.
RECURSIVE GCD(_, _)
GCD(a, b) == IF b = 0 THEN a ELSE GCD(b, a % b)

\* The fraction in lowest terms.
Norm(a) ==
    [num |-> a.num \div GCD(IF a.num < 0 THEN -a.num ELSE a.num, a.den),
     den |-> a.den \div GCD(IF a.num < 0 THEN -a.num ELSE a.num, a.den)]

Whole(i) == [num |-> i, den |-> 1]

FracSub(a, b) == [num |-> a.num * b.den - b.num * a.den, den |-> a.den * b.den]

FracAdd(a, b) == [num |-> a.num * b.den + b.num * a.den, den |-> a.den * b.den]

FracMul(a, b) == [num |-> a.num * b.num, den |-> a.den * b.den]

FracGT(a, b) == a.num * b.den > b.num * a.den

\* Square root of a number that is a perfect square.
ISqrt(n) == CHOOSE r \in 0..n : r * r = n

\* Square root of a fraction in lowest terms that is a square.
FracSqrt(a) == [num |-> ISqrt(a.num), den |-> ISqrt(a.den)]

RECURSIVE SumSeq(_)
SumSeq(s) == IF s = <<>> THEN 0 ELSE Head(s) + SumSeq(Tail(s))

RECURSIVE SumFrac(_)
SumFrac(s) == IF s = <<>> THEN Whole(0) ELSE FracAdd(Head(s), SumFrac(Tail(s)))

\* Insertion of a fraction into an ascending sequence of fractions.
RECURSIVE Insert(_, _)
Insert(x, s) ==
    IF s = <<>> THEN <<x>>
    ELSE IF FracGT(x, Head(s)) THEN <<Head(s)>> \o Insert(x, Tail(s))
    ELSE <<x>> \o s

RECURSIVE Sort(_)
Sort(s) == IF s = <<>> THEN <<>> ELSE Insert(Head(s), Sort(Tail(s)))

----
\* Inputs.
RowSeqs == UNION {[1..n -> 0..MaxVal] : n \in 1..MaxRows}

\* The rows of the matrices callers pass: column vectors listed in
\* non-decreasing order.
Rows == {r \in RowSeqs : \A i \in 1..Len(r) - 1 : r[i] <= r[i + 1]}

\* kind "numeric": a matrix of numbers; "strings": a one-row matrix holding a
\* numeric string such as '1'; "nonnumeric": an entry no validator accepts
\* (NaN, text); "empty": a matrix without rows.
Matrices ==
    [kind : {"numeric"}, rows : Rows]
    \cup [kind : {"strings"}, rows : {r \in Rows : Len(r) = 1}]
    \cup {[kind |-> "nonnumeric", rows |-> <<0>>], [kind |-> "empty", rows |-> <<>>]}

\* Constructor keywords forwarded to sklearn.decomposition.PCA.
Kwargs == {"default", "n_components=0", "n_components=-1", "bogus=1"}

\* fpr arguments k / FprDen, from below 0 to 1.
FprArgs == -1..FprDen

Accessors == {"components_", "explained_variance_", "explained_variance_ratio_",
              "mean_", "noise_variance_", "n_components_", "singular_values_",
              "threshold_", "X_"}

----
\* Outcomes of a call: a returned value or a raised error.
Ok(v) == [err |-> Absent, val |-> Present(v)]

Raise(e) == [err |-> Present(e), val |-> Absent]

Failed(o) == o.err # Absent

\* Values the model does not compute: the detector handed back by fit, the
\* float of PCA.score, and the arrays of decomposition attributes.
Self == "self"

LogLikelihood == "loglik"

Array == "array"

----
\* sklearn.decomposition.PCA on one-feature data, as the detector uses it.

\* PCA(**kwargs): an unknown keyword is a TypeError of the call; known
\* keywords are stored unchecked.
SKLearnPCA(kw) == IF kw = "bogus=1" THEN Raise("TypeError") ELSE Ok(kw)

\* The input validation of PCA.fit: a two-dimensional array of at least one
\* row, converted to float (numeric strings convert).
PCAFitAccepts(X) == X.kind \in {"numeric", "strings"}

\* PCA.fit(X): the fitted attributes, or the error raised before any of them
\* is assigned. n_components=None keeps min(n_samples, n_features) = 1
\* component, n_components=0 none; n_components=-1 is out of range.
\* The principal axis of a one-feature space is the unit vector <<1>>.
PCAFit(lib, kw, X) ==
    IF lib = "1.x" /\ kw = "n_components=-1" THEN Raise(InvalidConfiguration)
    ELSE IF ~PCAFitAccepts(X) THEN Raise(MalformedInput)
    ELSE IF kw = "n_components=-1" THEN Raise(InvalidConfiguration)
    ELSE Ok([mean_ |-> Norm([num |-> SumSeq(X.rows), den |-> Len(X.rows)]),
             n_components_ |-> IF kw = "n_components=0" THEN 0 ELSE 1,
             components_ |-> IF kw = "n_components=0" THEN <<>> ELSE <<1>>])

\* The input of PCA.transform and PCA.score_samples. In "0.19" it is validated
\* with check_array(X), and subtracting mean_ from the array of strings that
\* passes is a TypeError; in "1.x" it is converted to float.
PCATransformAccepts(lib, X) ==
    IF lib = "0.19" THEN X.kind = "numeric" ELSE X.kind \in {"numeric", "strings"}

\* PCA.transform of one row: (x - mean_) . components_^T.
PCATransform(p, x) ==
    [j \in 1..Len(p.components_) |->
        FracMul(FracSub(Whole(x), p.mean_), Whole(p.components_[j]))]

RECURSIVE Dot(_, _)
Dot(z, c) ==
    IF z = <<>> THEN Whole(0)
    ELSE FracAdd(FracMul(Head(z), Whole(Head(c))), Dot(Tail(z), Tail(c)))

\* PCA.inverse_transform of one projected row: z . components_ + mean_.
PCAInverseTransform(p, z) == Norm(FracAdd(Dot(z, p.components_), p.mean_))

\* sklearn.utils.check_array(X) with its defaults (dtype="numeric"): an array
\* of numbers is handed back as it is, an array of strings too in "0.19".
CheckArray(lib, X) ==
    IF X.kind \notin {"numeric", "strings"} THEN Raise(MalformedInput)
    ELSE IF lib = "1.x" /\ X.kind = "strings" THEN Raise(MalformedInput)
    ELSE Ok(X)

\* Interpolate without the interpolation: the entry at the floor of the
\* virtual index (numpy's interpolation='lower').
InterpolateLower(s, H) == s[(H \div FprDen) + 1]

\* Linear interpolation in the ascending sequence s at the virtual index
\* H / FprDen (counted from 0).
Interpolate(s, H) ==
    Norm(FracAdd(s[(H \div FprDen) + 1],
                 FracMul([num |-> H % FprDen, den |-> FprDen],
                         FracSub(s[IF (H \div FprDen) + 2 <= Len(s)
                                   THEN (H \div FprDen) + 2
                                   ELSE (H \div FprDen) + 1],
                                 s[(H \div FprDen) + 1]))))

\* numpy.percentile(a, 100 * (1 - k / FprDen)): the value at the virtual index
\* (n - 1) * (1 - k / FprDen) of sorted a.
Percentile(a, k) == Interpolate(Sort(a), (Len(a) - 1) * (FprDen - k))

----
\* The detector's methods as functions of the attributes they read:
\* lib the library generation, p the fitted state of the attribute _pca, x_ the attribute X_, t the
\* attribute threshold_, k the numerator of fpr, kw the estimator's keyword.

\* PCA.reconstruct(X): one row of one feature per row of X.
reconstruct(lib, p, X) ==
    IF p = Absent THEN Raise(NotFittedError)
    ELSE IF ~PCATransformAccepts(lib, X) THEN Raise(MalformedInput)
    ELSE Ok([i \in 1..Len(X.rows) |->
                <<PCAInverseTransform(p[1], PCATransform(p[1], X.rows[i]))>>])

\* (X - rec) ** 2; subtracting from an array of strings is a TypeError.
SquaredResidual(X, rec) ==
    IF Failed(rec) THEN rec
    ELSE IF X.kind = "strings" THEN Raise(MalformedInput)
    ELSE Ok([i \in 1..Len(X.rows) |->
                <<Norm(FracMul(FracSub(Whole(X.rows[i]), rec.val[1][i][1]),
                               FracSub(Whole(X.rows[i]), rec.val[1][i][1])))>>])

\* The body of feature_wise_anomaly_score once X is chosen.
ResidualOf(lib, p, X) == SquaredResidual(X, reconstruct(lib, p, X))

\* PCA.feature_wise_anomaly_score(X): Xarg is Absent for X=None.
feature_wise_anomaly_score(lib, p, x_, Xarg) ==
    IF x_ = Absent THEN Raise(NotFittedError)
    ELSE ResidualOf(lib, p, IF Xarg = Absent THEN x_[1] ELSE Xarg[1])

\* np.sqrt(np.sum(f, axis=1)): one score per row.
SqrtRowSums(f) ==
    IF Failed(f) THEN f
    ELSE Ok([i \in 1..Len(f.val[1]) |-> FracSqrt(Norm(SumFrac(f.val[1][i])))])

\* anomaly_score that leaves X out of its call of feature_wise_anomaly_score,
\* and so scores the training data whatever it is given.
anomaly_score_without_X(lib, p, x_, Xarg) ==
    SqrtRowSums(feature_wise_anomaly_score(lib, p, x_, Absent))

\* PCA.anomaly_score(X)
anomaly_score(lib, p, x_, Xarg) == SqrtRowSums(feature_wise_anomaly_score(lib, p, x_, Xarg))

\* PCA.score(X): forwarded to the fitted estimator.
score(lib, p, X) ==
    IF p = Absent THEN Raise(NotFittedError)
    ELSE IF ~PCATransformAccepts(lib, X) THEN Raise(MalformedInput)
    ELSE Ok(LogLikelihood)

\* The property accessors forward to the estimator's attribute of the same
\* name; threshold_ and X_ are plain attributes of the detector.
accessor(name, p, x_, t) ==
    IF name = "threshold_"
    THEN IF t = Absent THEN Raise(AttributeError) ELSE Ok(t[1])
    ELSE IF name = "X_"
    THEN IF x_ = Absent THEN Raise(AttributeError) ELSE Ok(x_[1])
    ELSE IF p = Absent THEN Raise(AttributeError)
    ELSE IF name = "mean_" THEN Ok(p[1].mean_)
    ELSE IF name = "n_components_" THEN Ok(p[1].n_components_)
    ELSE IF name = "components_" THEN Ok(p[1].components_)
    ELSE Ok(Array)

\* BaseDetector.check_params: fpr = k / FprDen must lie in [0, 1).
check_params(k) ==
    IF k < 0 \/ k >= FprDen THEN Raise(InvalidConfiguration) ELSE Ok(Self)

\* PCA.__init__(fpr, **kwargs): the estimator is built, then check_params runs.
init(k, kw) ==
    IF kw = "bogus=1" THEN SKLearnPCA(kw) ELSE check_params(k)

\* fit_threshold with the percentile taken at 100 * fpr.
fit_threshold_at_fpr(sc, p1, x1, k, t) ==
    IF Failed(sc)
    THEN [pca |-> p1, X_ |-> x1, threshold_ |-> t, out |-> sc]
    ELSE [pca |-> p1, X_ |-> x1,
          threshold_ |-> Present(Percentile(sc.val[1], FprDen - k)), out |-> Ok(Self)]

\* The last statement of fit: threshold_ from the training scores sc.
fit_threshold(sc, p1, x1, k, t) ==
    IF Failed(sc)
    THEN [pca |-> p1, X_ |-> x1, threshold_ |-> t, out |-> sc]
    ELSE [pca |-> p1, X_ |-> x1,
          threshold_ |-> Present(Percentile(sc.val[1], k)), out |-> Ok(Self)]

\* fit after self._pca.fit(X) has ended with est: X_ is assigned the
\* validated X, and the training data are scored with X omitted.
fit_X_(lib, est, chk, k, p, x_, t) ==
    IF Failed(est)
    THEN [pca |-> p, X_ |-> x_, threshold_ |-> t, out |-> est]
    ELSE IF Failed(chk)
    THEN [pca |-> est.val, X_ |-> x_, threshold_ |-> t, out |-> chk]
    ELSE fit_threshold(anomaly_score(lib, est.val, chk.val, Absent), est.val, chk.val, k, t)

\* PCA.fit(X): the attributes after the call and its outcome. The estimator
\* is fitted first, then X_ is assigned, then the training scores are
\* computed, then threshold_ is assigned; an error leaves what was assigned
\* before it.
fit(lib, k, kw, p, x_, t, X) ==
    fit_X_(lib, PCAFit(lib, kw, X), CheckArray(lib, X), k, p, x_, t)

\* The labels of the scores sc against the threshold th.
Labels(sc, th) ==
    IF Failed(sc) THEN sc
    ELSE Ok([i \in 1..Len(sc.val[1]) |->
                IF FracGT(sc.val[1][i], th) THEN "outlier" ELSE "inlier"])

\* BaseDetector.predict(X).
predict(lib, p, x_, t, X) ==
    IF t = Absent THEN Raise(NotFittedError)
    ELSE Labels(anomaly_score(lib, p, x_, Present(X)), t[1])

\* predict(X) on the detector fit returned.
ThenPredict(lib, f, X) ==
    IF Failed(f.out) THEN f
    ELSE [pca |-> f.pca, X_ |-> f.X_, threshold_ |-> f.threshold_,
          out |-> predict(lib, f.pca, f.X_, f.threshold_, X)]

\* BaseDetector.fit_predict(X): fit(X) followed by predict(X).
fit_predict(lib, k, kw, p, x_, t, X) ==
    ThenPredict(lib, fit(lib, k, kw, p, x_, t, X), X)

----
\* The call the caller has just made: its name, its matrix argument, and its
\* outcome. Between calls the caller holds no outcome.
Called(op, arg, o) == [op |-> op, arg |-> arg, err |-> o.err, val |-> o.val]

Idle == [op |-> "idle", arg |-> Absent, err |-> Absent, val |-> Absent]

Init ==
    /\ library \in Libraries
    /\ constructed = FALSE
    /\ fpr = Absent
    /\ kwargs = Absent
    /\ pca = Absent
    /\ X_ = Absent
    /\ threshold_ = Absent
    /\ fitted = FALSE
    /\ result = Idle

\* A constructor call that ended with o.
Constructed(k, kw, o) ==
    /\ constructed' = ~Failed(o)
    /\ fpr' = IF Failed(o) THEN Absent ELSE Present(k)
    /\ kwargs' = IF Failed(o) THEN Absent ELSE Present(kw)
    /\ result' = Called("__init__", Absent, o)
    /\ UNCHANGED <<library, pca, X_, threshold_, fitted>>

\* detector = PCA(fpr=k/FprDen, **kw)
Construct(k, kw) ==
    /\ ~constructed
    /\ result = Idle
    /\ Constructed(k, kw, init(k, kw))

\* A fitting call that ended with the attributes and outcome f.
Fitted(op, X, f) ==
    /\ pca' = f.pca
    /\ X_' = f.X_
    /\ threshold_' = f.threshold_
    /\ fitted' = (fitted \/ ~Failed(f.out))
    /\ result' = Called(op, Present(X), f.out)
    /\ UNCHANGED <<library, constructed, fpr, kwargs>>

\* detector.fit(X)
Fit(X) ==
    /\ constructed
    /\ result = Idle
    /\ Fitted("fit", X, fit(library, fpr[1], kwargs[1], pca, X_, threshold_, X))

\* detector.fit_predict(X)
FitPredict(X) ==
    /\ constructed
    /\ result = Idle
    /\ Fitted("fit_predict", X,
              fit_predict(library, fpr[1], kwargs[1], pca, X_, threshold_, X))

\* detector.predict(X)
Predict(X) ==
    /\ constructed
    /\ result = Idle
    /\ result' = Called("predict", Present(X), predict(library, pca, X_, threshold_, X))
    /\ UNCHANGED <<library, constructed, fpr, kwargs, pca, X_, threshold_, fitted>>

\* AnomalyScore that keeps the matrix it is given as X_.
AnomalyScoreKeepingX(Xarg) ==
    /\ constructed
    /\ result = Idle
    /\ result' = Called("anomaly_score", Xarg, anomaly_score(library, pca, X_, Xarg))
    /\ X_' = IF Xarg = Absent THEN X_ ELSE Xarg
    /\ UNCHANGED <<library, constructed, fpr, kwargs, pca, threshold_, fitted>>

\* detector.anomaly_score(X) and detector.anomaly_score()
AnomalyScore(Xarg) ==
    /\ constructed
    /\ result = Idle
    /\ result' = Called("anomaly_score", Xarg, anomaly_score(library, pca, X_, Xarg))
    /\ UNCHANGED <<library, constructed, fpr, kwargs, pca, X_, threshold_, fitted>>

\* detector.feature_wise_anomaly_score(X) and with X omitted
FeatureWiseAnomalyScore(Xarg) ==
    /\ constructed
    /\ result = Idle
    /\ result' = Called("feature_wise_anomaly_score", Xarg,
                        feature_wise_anomaly_score(library, pca, X_, Xarg))
    /\ UNCHANGED <<library, constructed, fpr, kwargs, pca, X_, threshold_, fitted>>

\* detector.reconstruct(X)
Reconstruct(X) ==
    /\ constructed
    /\ result = Idle
    /\ result' = Called("reconstruct", Present(X), reconstruct(library, pca, X))
    /\ UNCHANGED <<library, constructed, fpr, kwargs, pca, X_, threshold_, fitted>>

\* detector.score(X)
Score(X) ==
    /\ constructed
    /\ result = Idle
    /\ result' = Called("score", Present(X), score(library, pca, X))
    /\ UNCHANGED <<library, constructed, fpr, kwargs, pca, X_, threshold_, fitted>>

\* detector.<name>
Get(name) ==
    /\ constructed
    /\ result = Idle
    /\ result' = Called(name, Absent, accessor(name, pca, X_, threshold_))
    /\ UNCHANGED <<library, constructed, fpr, kwargs, pca, X_, threshold_, fitted>>

\* The caller takes the outcome and goes on.
Return ==
    /\ result # Idle
    /\ result' = Idle
    /\ UNCHANGED <<library, constructed, fpr, kwargs, pca, X_, threshold_, fitted>>

Next ==
    \/ \E k \in FprArgs, kw \in Kwargs : Construct(k, kw)
    \/ \E X \in Matrices : Fit(X)
    \/ \E X \in Matrices : FitPredict(X)
    \/ \E X \in Matrices : Predict(X)
    \/ \E X \in Matrices : AnomalyScore(Present(X))
    \/ AnomalyScore(Absent)
    \/ \E X \in Matrices : FeatureWiseAnomalyScore(Present(X))
    \/ FeatureWiseAnomalyScore(Absent)
    \/ \E X \in Matrices : Reconstruct(X)
    \/ \E X \in Matrices : Score(X)
    \/ \E name \in Accessors : Get(name)
    \/ Return

Spec == Init /\ [][Next]_vars

----
\* Definitions the properties below are stated with.

Returned(op) == result.op = op /\ result.err = Absent

Raised(e) == result.err = Present(e)

FracEq(a, b) == a.num * b.den = b.num * a.den

\* Operations other than fit and fit_predict.
ReadOnlyOps ==
    {"anomaly_score", "feature_wise_anomaly_score", "reconstruct", "predict", "score"}
    \cup Accessors

\* The reconstruction error of the one-feature row x under the fitted
\* attributes p: with no component kept the reconstruction is mean_, with
\* one it is x itself.
ResidualNorm(p, x) ==
    IF p.n_components_ = 0
    THEN [num |-> IF x * p.mean_.den >= p.mean_.num
                  THEN x * p.mean_.den - p.mean_.num
                  ELSE p.mean_.num - x * p.mean_.den,
          den |-> p.mean_.den]
    ELSE Whole(0)

\* The attributes an estimator with keyword kw has after fitting the rows.
Estimate(kw, rows) ==
    [mean_ |-> [num |-> SumSeq(rows), den |-> Len(rows)],
     n_components_ |-> IF kw = "n_components=0" THEN 0 ELSE 1]

\* The reconstruction errors of all rows under p.
ResidualNorms(p, rows) == [i \in 1..Len(rows) |-> ResidualNorm(p, rows[i])]

\* The j-th smallest entry of sc, counted from 0: the entry with at most j
\* entries below it and more than j entries not above it.
OrderStatistic(sc, j) ==
    sc[CHOOSE i \in 1..Len(sc) :
          /\ Cardinality({m \in 1..Len(sc) : FracGT(sc[i], sc[m])}) <= j
          /\ Cardinality({m \in 1..Len(sc) : ~FracGT(sc[m], sc[i])}) > j]

\* The 100 * (1 - k / FprDen)-th percentile of sc in closed form: with
\* h = (n - 1) * (1 - k / FprDen), the order statistic at floor(h) plus the
\* fractional part of h times the gap to the next order statistic.
ClosedFormPercentile(sc, k) ==
    LET H  == (Len(sc) - 1) * (FprDen - k)
        lo == H \div FprDen
        hi == IF lo + 1 < Len(sc) THEN lo + 1 ELSE lo
    IN  FracAdd(OrderStatistic(sc, lo),
                FracMul([num |-> H % FprDen, den |-> FprDen],
                        FracSub(OrderStatistic(sc, hi), OrderStatistic(sc, lo))))

----
\* C1: on a detector on which no fit call has succeeded, every call
\* anomaly_score(X), predict(X), score(X) raises the not-fitted error.
C1_NotFittedBeforeFit ==
    (~fitted /\ result.op \in {"anomaly_score", "predict", "score"}
             /\ result.arg # Absent)
        => Raised(NotFittedError)

\* C2: threshold_, the fitted parameters and X_ are all undefined or all
\* defined, in every state.
C2_FittedTogether ==
    /\ (threshold_ = Absent) <=> (pca = Absent)
    /\ (threshold_ = Absent) <=> (X_ = Absent)

\* C3: after a successful fit(X), threshold_ is the 100 * (1 - fpr)-th
\* percentile of the anomaly scores of the rows of X under the parameters
\* estimated from X.
C3_ThresholdIsPercentile ==
    Returned("fit") =>
        /\ threshold_ # Absent
        /\ FracEq(threshold_[1],
                  ClosedFormPercentile(
                      ResidualNorms(Estimate(kwargs[1], result.arg[1].rows),
                                    result.arg[1].rows),
                      fpr[1]))

\* A fit whose threshold_ lies strictly between two training scores.
C3_Witness ==
    /\ Returned("fit")
    /\ \E i \in 1..Len(X_[1].rows) :
          FracGT(threshold_[1], ResidualNorm(pca[1], X_[1].rows[i]))
    /\ \E i \in 1..Len(X_[1].rows) :
          FracGT(ResidualNorm(pca[1], X_[1].rows[i]), threshold_[1])
    /\ \A i \in 1..Len(X_[1].rows) :
          ~FracEq(threshold_[1], ResidualNorm(pca[1], X_[1].rows[i]))

\* C4: predict(X) returns one label per row of X, in row order, and a row's
\* label is outlier exactly when its anomaly score is strictly greater than
\* threshold_.
C4_PredictLabels ==
    Returned("predict") =>
        /\ Len(result.val[1]) = Len(result.arg[1].rows)
        /\ \A i \in 1..Len(result.arg[1].rows) :
              /\ result.val[1][i] \in {"outlier", "inlier"}
              /\ result.val[1][i] = "outlier"
                    <=> FracGT(ResidualNorm(pca[1], result.arg[1].rows[i]),
                               threshold_[1])

\* A predict call that labels one row outlier and labels inlier a row whose
\* score equals threshold_.
C4_Witness ==
    /\ Returned("predict")
    /\ \E i \in 1..Len(result.val[1]) : result.val[1][i] = "outlier"
    /\ \E i \in 1..Len(result.val[1]) :
          /\ result.val[1][i] = "inlier"
          /\ FracEq(ResidualNorm(pca[1], result.arg[1].rows[i]), threshold_[1])
          /\ threshold_[1].num > 0

\* C5: with fpr = 0, after fit(X) threshold_ is at or above every training
\* anomaly score and predict(X) labels every training row inlier, and
\* fit_predict(X) returns inlier for every row.
C5_ZeroFprAllInliers ==
    fpr = Present(0) =>
        /\ Returned("fit") =>
              /\ \A i \in 1..Len(X_[1].rows) :
                    ~FracGT(ResidualNorm(pca[1], X_[1].rows[i]), threshold_[1])
              /\ predict(library, pca, X_, threshold_, result.arg[1])
                    = Ok([i \in 1..Len(result.arg[1].rows) |-> "inlier"])
        /\ Returned("fit_predict") =>
              result.val[1] = [i \in 1..Len(result.arg[1].rows) |-> "inlier"]

\* A fit_predict with fpr = 0 on a training set whose largest score is
\* positive and shared by two rows.
C5_Witness ==
    /\ fpr = Present(0)
    /\ Returned("fit_predict")
    /\ threshold_[1].num > 0
    /\ \E i, j \in 1..Len(X_[1].rows) :
          /\ i # j
          /\ FracEq(ResidualNorm(pca[1], X_[1].rows[i]), threshold_[1])
          /\ FracEq(ResidualNorm(pca[1], X_[1].rows[j]), threshold_[1])

\* C6: a call of anomaly_score, feature_wise_anomaly_score, reconstruct,
\* predict, score or an accessor, returning or raising, leaves fpr, the
\* estimator's keyword and fitted attributes, X_ and threshold_ as they were.
C6_OnlyFitMutates ==
    [][result'.op \in ReadOnlyOps => UNCHANGED <<fpr, kwargs, pca, X_, threshold_>>]_vars

\* A read-only call returned a value on a fitted detector.
C6_Witness ==
    /\ Returned("anomaly_score")
    /\ result.arg # Absent
    /\ threshold_ # Absent

\* C7: an invalid fpr or estimator keyword is rejected by the constructor, and
\* no later call raises the invalid-configuration error.
C7_ConfigurationCheckedAtConstruction ==
    /\ constructed =>
          /\ fpr[1] \in 0..(FprDen - 1)
          /\ kwargs[1] \in {"default", "n_components=0"}
    /\ result.op # "__init__" => ~Raised(InvalidConfiguration)

\* C8: a fit call that fails for malformed input has assigned no fitted
\* parameter, X_ or threshold_.
C8_RejectedFitAssignsNothing ==
    [][(result'.op = "fit" /\ result'.err = Present(MalformedInput))
          => UNCHANGED <<pca, X_, threshold_>>]_vars

\* C9: reading a fitted-parameter accessor before a successful fit raises the
\* not-fitted error.
C9_AccessorsNotFitted ==
    (~fitted /\ result.op \in Accessors \ {"X_"}) => Raised(NotFittedError)

\* C10: whenever threshold_ is defined, it is the 100 * (1 - fpr)-th
\* percentile of the anomaly scores of the stored X_ under the stored
\* parameters.
C10_ThresholdMatchesStoredState ==
    threshold_ # Absent =>
        /\ pca # Absent
        /\ X_ # Absent
        /\ X_[1].kind = "numeric"
        /\ FracEq(threshold_[1],
                  ClosedFormPercentile(ResidualNorms(pca[1], X_[1].rows), fpr[1]))

====
